---- MODULE Spec2Model ----
(***************************************************************************)
(* GeoNumber Intel (src/src/App.tsx): the three App components of the      *)
(* repository as one state machine.                                        *)
(*   variant 1  App.tsx 11-88    plain handleSearch (result / loading)     *)
(*   variant 2  App.tsx 117-238  handleSearch + startScan, key resolution  *)
(*                               and flash -> pro model fallback           *)
(*   variant 3  App.tsx 516-595  handleSearch + startScan, one model       *)
(* Every action is one run-to-completion step of the UI event loop: an     *)
(* event handler up to its first await, the continuation after an await,   *)
(* or a timer callback.                                                    *)
(***************************************************************************)
EXTENDS Integers, FiniteSets, Sequences, TLC

VARIABLES
  variant,       \* which App component is mounted
  env,           \* process.env / import.meta.env key variables
  phoneNumber, isScanning, error, report, parsedData, scanProgress,
  manualKey, showKeyInput,
  result, loading,                 \* state of variant 1
  calls,         \* generateContent() promises not yet settled
  pauses,        \* setTimeout callbacks not yet fired
  intervals,     \* setInterval handles not yet cleared
  session,       \* number of handleSearch runs so far
  ncalls,        \* generateContent() calls made by the latest handleSearch
  hist,          \* what the model calls of the latest handleSearch did
  owner          \* which handleSearch run wrote error / report

vars == <<variant, env, phoneNumber, isScanning, error, report, parsedData,
          scanProgress, manualKey, showKeyInput, result, loading, calls,
          pauses, intervals, session, ncalls, hist, owner>>

----------------------------------------------------------------------------
(* Bounds *)
MaxSessions == 3

----------------------------------------------------------------------------
(* Values *)

\* null of error (variants 2, 3); variant 1 uses '' instead
NULL == "<null>"

\* null of report / parsedData / result
NullObj == [kind |-> "null", id |-> 0, fields |-> {}]

PLACEHOLDER == "MY_GEMINI_API_KEY"
RealKey == "AIzaSy-key"
KeyValues == {"", PLACEHOLDER, RealKey}

EnvNames == {"GEMINI_API_KEY", "USER_API_KEY", "API_KEY", "VITE_GEMINI_API_KEY"}

NoEnv == [n \in EnvNames |-> ""]

\* environments the component is run in
EnvConfigs ==
  { NoEnv,
    [NoEnv EXCEPT !["GEMINI_API_KEY"] = PLACEHOLDER],
    [NoEnv EXCEPT !["VITE_GEMINI_API_KEY"] = PLACEHOLDER],
    [NoEnv EXCEPT !["GEMINI_API_KEY"] = RealKey] }

\* every assignment of the four environment sources
AllEnvs == [EnvNames -> KeyValues]

\* what the user types into the number field
PhoneInputs == {"", "not a number", "+6212", "+6281234567890"}

MsgInvalid2 == "Nomor telepon tidak valid. Pastikan gunakan format internasional (misal: +62...)."
MsgInvalid3 == "Nomor telepon tidak valid."
MsgProcess == "Gagal memproses nomor."
MsgNoKey == "API Key tidak terdeteksi secara otomatis. Silakan masukkan secara manual di bawah."
MsgReport == "Gagal mendapatkan laporan intelijen."

\* messages of the errors generateContent() rejects with
RejectMsgs == {"", "quota exceeded", "network down"}

RequiredFields == {"summary", "regionDetails", "carrierInfo", "securityRisk", "recommendations"}

\* response.text values the model API answers with
TextEmpty == ""
TextGarbage == "I cannot help with that"
TextPartial == "{\"summary\":\"x\"}"
TextR1 == "{\"summary\":\"x\",\"regionDetails\":\"y\",\"carrierInfo\":\"z\",\"securityRisk\":\"Low\",\"recommendations\":[\"a\",\"b\",\"c\"]}"
TextR2 == "{\"summary\":\"p\",\"regionDetails\":\"q\",\"carrierInfo\":\"r\",\"securityRisk\":\"High\",\"recommendations\":[\"d\",\"e\",\"f\"]}"
TextNull == "null"
ResponseTexts == {TextEmpty, TextGarbage, TextPartial, TextNull, TextR1, TextR2}

----------------------------------------------------------------------------
(* Pure functions *)

\* parsePhoneNumberWithError(s) followed by parsed.isValid()
ParsePhone(s) ==
  CASE s = "+6281234567890" ->
         [threw |-> FALSE, valid |-> TRUE, number |-> "+6281234567890", country |-> "ID", msg |-> ""]
    [] s = "+6212" ->
         [threw |-> FALSE, valid |-> FALSE, number |-> "+6212", country |-> "ID", msg |-> ""]
    [] s = "not a number" ->
         [threw |-> TRUE, valid |-> FALSE, number |-> "", country |-> "", msg |-> "NOT_A_NUMBER"]
    [] OTHER ->
         [threw |-> TRUE, valid |-> FALSE, number |-> "", country |-> "", msg |-> "NOT_A_NUMBER"]

\* the PhoneNumber object kept in parsedData / in the closures
ParsedObj(p) == [kind |-> "parsed", id |-> 0, fields |-> {p.number, p.country}]

\* a || b on strings
Or(a, b) == IF a # "" THEN a ELSE b

\* JSON.parse(text)
JSONparse(text) ==
  CASE text = "{}" -> [threw |-> FALSE, val |-> [kind |-> "object", id |-> 0, fields |-> {}]]
    [] text = TextNull -> [threw |-> FALSE, val |-> NullObj]
    [] text = TextPartial -> [threw |-> FALSE, val |-> [kind |-> "object", id |-> 0, fields |-> {"summary"}]]
    [] text = TextR1 -> [threw |-> FALSE, val |-> [kind |-> "object", id |-> 1, fields |-> RequiredFields]]
    [] text = TextR2 -> [threw |-> FALSE, val |-> [kind |-> "object", id |-> 2, fields |-> RequiredFields]]
    [] OTHER -> [threw |-> TRUE, val |-> NullObj]

MsgSyntax == "Unexpected token I in JSON at position 0"

\* const apiKey = manualKey || GEMINI_API_KEY || USER_API_KEY || API_KEY || VITE_GEMINI_API_KEY
ResolveKey(mk, e) ==
  Or(mk, Or(e["GEMINI_API_KEY"], Or(e["USER_API_KEY"], Or(e["API_KEY"], e["VITE_GEMINI_API_KEY"]))))

\* KeyMissing without the placeholder test
KeyMissingOnlyEmpty(k) == k = ""

\* !apiKey || apiKey === 'MY_GEMINI_API_KEY' || apiKey === ''
KeyMissing(k) == k = "" \/ k = PLACEHOLDER

\* Math.random() * 10 (variant 2), Math.random() * 15 (variant 3): the two
\* extremes of the whole-unit increments
Increments(v) == IF v = 2 THEN {0, 9} ELSE {0, 14}

\* SubmitEnabled without the isScanning test
SubmitEnabledWhileScanning ==
  IF variant = 1 THEN ~loading ELSE phoneNumber # ""

\* SubmitEnabled without the !phoneNumber test
SubmitEnabledEmptyInput ==
  IF variant = 1 THEN ~loading ELSE ~isScanning

\* disabled={isScanning || !phoneNumber} / disabled={loading}
SubmitEnabled ==
  IF variant = 1 THEN ~loading ELSE ~isScanning /\ phoneNumber # ""

NoHist == [primary |-> "none", fallback |-> "none", primErr |-> "", fbErr |-> "", text |-> ""]

----------------------------------------------------------------------------
Init ==
  /\ variant \in {1, 2, 3}
  /\ env \in EnvConfigs
  /\ phoneNumber = ""
  /\ isScanning = FALSE
  /\ error = IF variant = 1 THEN "" ELSE NULL
  /\ report = NullObj
  /\ parsedData = NullObj
  /\ scanProgress = 0
  /\ manualKey = ""
  /\ showKeyInput = FALSE
  /\ result = NullObj
  /\ loading = FALSE
  /\ calls = {}
  /\ pauses = {}
  /\ intervals = {}
  /\ session = 0
  /\ ncalls = 0
  /\ hist = NoHist
  /\ owner = [error |-> 0, report |-> 0]


----------------------------------------------------------------------------
(* Decisions of the handlers *)

\* catch of handleSearch: setError(err.message || 'Gagal memproses nomor.') / setError(err.message)
SearchError(v, msg) == IF v = 1 THEN msg ELSE Or(msg, MsgProcess)

\* the Error handleSearch throws when isValid() is false
InvalidMsg(v) == IF v = 1 THEN "Invalid number" ELSE IF v = 2 THEN MsgInvalid2 ELSE MsgInvalid3

\* ScanError that always shows the generic message
ScanErrorGeneric(v, msg) == MsgReport

\* catch of startScan: setError(err.message || MsgReport) / setError(MsgReport)
ScanError(v, msg) == IF v = 2 THEN Or(msg, MsgReport) ELSE MsgReport

\* the interval callback: prev => prev >= 100 ? 100 : prev + Math.random() * k
TickValue(prev, inc) == IF prev >= 100 THEN 100 ELSE prev + inc

\* clearInterval(interval) inside the callback
TickClears(prev) == prev >= 100

\* ReportText that drops the response text
ReportTextDropped(text) == "{}"

\* response.text || '{}'
ReportText(text) == Or(text, "{}")

\* the pause callback without setScanProgress(100)
PauseProgressKept(prev) == prev

\* setScanProgress(100) in the setTimeout callback
PauseProgress(prev) == 100

\* the catch of startScan without setIsScanning(false)
ScanningKeptAfterCatch(prev) == prev

\* setIsScanning(false) in the catch of startScan
ScanningAfterCatch(prev) == FALSE

\* a retry after every rejected call
RetriesAlways(v, model) == v = 2

\* the catch (flashErr) block retries with the pro model
RetriesWithPro(v, model) == v = 2 /\ model = "flash"

\* the first model startScan calls
FirstModel(v) == IF v = 2 THEN "flash" ELSE "pro"

Call(sid, model, parsed, flashErr) ==
  [sid |-> sid, model |-> model, parsed |-> parsed, flashErr |-> flashErr]

----------------------------------------------------------------------------
(* Actions *)

\* Rejected without the isValid() test
RejectedOnlyThrow(p) == p.threw

\* if (!parsed.isValid()) throw ..., or parsePhoneNumberWithError threw
Rejected(p) == p.threw \/ ~p.valid

\* handleSearch that keeps the previous error
ErrorKeptOnSubmit(v) == error

\* setError(null) / setError('') at the top of handleSearch
ErrorOnSubmit(v) == IF v = 1 THEN "" ELSE NULL

\* handleSearch that keeps the previous report
ReportKeptOnSubmit(prev) == prev

\* setReport(null) / setResult(null) at the top of handleSearch
ReportOnSubmit(prev) == NullObj

\* onChange of the number field: setPhoneNumber(e.target.value)
SetPhoneNumber ==
  /\ \E s \in PhoneInputs : s # phoneNumber /\ phoneNumber' = s
  /\ UNCHANGED <<variant, env, isScanning, error, report, parsedData, scanProgress,
                 manualKey, showKeyInput, result, loading, calls, pauses,
                 intervals, session, ncalls, hist, owner>>

\* onChange of the manual key field, rendered only when showKeyInput
SetManualKey ==
  /\ variant = 2
  /\ showKeyInput
  /\ \E k \in KeyValues : k # manualKey /\ manualKey' = k
  /\ UNCHANGED <<variant, env, phoneNumber, isScanning, error, report, parsedData,
                 scanProgress, showKeyInput, result, loading, calls, pauses,
                 intervals, session, ncalls, hist, owner>>

\* startScan(parsed) up to its first await (variants 2 and 3)
StartScan(sid, parsed) ==
  /\ scanProgress' = 0
  /\ intervals' = intervals \cup {sid}
  /\ IF variant = 2 /\ KeyMissing(ResolveKey(manualKey, env))
       THEN /\ showKeyInput' = TRUE
            /\ error' = ScanError(variant, MsgNoKey)
            /\ owner' = [owner EXCEPT !.error = sid]
            /\ isScanning' = ScanningAfterCatch(TRUE)
            /\ calls' = calls
            /\ ncalls' = 0
            /\ hist' = NoHist
       ELSE /\ showKeyInput' = showKeyInput
            /\ error' = ErrorOnSubmit(variant)
            /\ owner' = owner
            /\ isScanning' = TRUE
            /\ calls' = calls \cup {Call(sid, FirstModel(variant), parsed, "")}
            /\ ncalls' = 1
            /\ hist' = [NoHist EXCEPT !.primary = "pending"]

\* onSubmit of the form, variants 2 and 3: handleSearch and the synchronous part of startScan
HandleSearch ==
  /\ variant \in {2, 3}
  /\ session < MaxSessions
  /\ SubmitEnabled
  /\ session' = session + 1
  /\ report' = ReportOnSubmit(report)
  /\ LET p == ParsePhone(phoneNumber) IN
       IF Rejected(p)
         THEN /\ error' = SearchError(variant, IF p.threw THEN p.msg ELSE InvalidMsg(variant))
              /\ owner' = [owner EXCEPT !.error = session + 1]
              /\ parsedData' = NullObj
              /\ ncalls' = 0
              /\ hist' = NoHist
              /\ UNCHANGED <<isScanning, scanProgress, showKeyInput, calls, intervals>>
         ELSE /\ parsedData' = ParsedObj(p)
              /\ StartScan(session + 1, ParsedObj(p))
  /\ UNCHANGED <<variant, env, phoneNumber, manualKey, result, loading, pauses>>

\* onSubmit of the form, variant 1: handleSearch up to its await, or through catch and finally
HandleSearchPlain ==
  /\ variant = 1
  /\ session < MaxSessions
  /\ SubmitEnabled
  /\ session' = session + 1
  /\ result' = ReportOnSubmit(result)
  /\ LET p == ParsePhone(phoneNumber) IN
       IF Rejected(p)
         THEN /\ error' = SearchError(variant, IF p.threw THEN p.msg ELSE InvalidMsg(variant))
              /\ owner' = [owner EXCEPT !.error = session + 1]
              /\ loading' = FALSE
              /\ ncalls' = 0
              /\ hist' = NoHist
              /\ calls' = calls
         ELSE /\ error' = ErrorOnSubmit(variant)
              /\ owner' = owner
              /\ loading' = TRUE
              /\ ncalls' = 1
              /\ hist' = [NoHist EXCEPT !.primary = "pending"]
              /\ calls' = calls \cup {Call(session + 1, "pro", ParsedObj(p), "")}
  /\ UNCHANGED <<variant, env, phoneNumber, isScanning, report, parsedData, scanProgress,
                 manualKey, showKeyInput, pauses, intervals>>

\* one firing of a live setInterval callback
Tick ==
  /\ \E i \in intervals : \E inc \in Increments(variant) :
       /\ scanProgress' = TickValue(scanProgress, inc)
       /\ intervals' = IF TickClears(scanProgress) THEN intervals \ {i} ELSE intervals
  /\ UNCHANGED <<variant, env, phoneNumber, isScanning, error, report, parsedData,
                 manualKey, showKeyInput, result, loading, calls, pauses,
                 session, ncalls, hist, owner>>

\* the catch of startScan: setError(...); setIsScanning(false)
ScanFails(sid, msg) ==
  /\ error' = ScanError(variant, msg)
  /\ owner' = [owner EXCEPT !.error = sid]
  /\ isScanning' = ScanningAfterCatch(isScanning)

\* hist after call c of the latest handleSearch settled
HistCall(c, status, field, val) ==
  IF c.sid # session THEN hist
  ELSE IF c.model = FirstModel(variant)
         THEN [hist EXCEPT !.primary = status, ![field] = val]
         ELSE [hist EXCEPT !.fallback = status, ![field] = val]

\* a generateContent() promise resolves, variants 2 and 3: JSON.parse and setTimeout, or the catch
Resolve ==
  /\ variant \in {2, 3}
  /\ \E c \in calls : \E text \in ResponseTexts :
       LET r == JSONparse(ReportText(text)) IN
         /\ calls' = calls \ {c}
         /\ hist' = HistCall(c, "resolved", "text", text)
         /\ IF r.threw
              THEN /\ ScanFails(c.sid, MsgSyntax)
                   /\ pauses' = pauses
              ELSE /\ pauses' = pauses \cup {[sid |-> c.sid, result |-> r.val]}
                   /\ UNCHANGED <<error, owner, isScanning>>
  /\ UNCHANGED <<variant, env, phoneNumber, report, parsedData, scanProgress, manualKey,
                 showKeyInput, result, loading, intervals, session, ncalls>>

\* a generateContent() promise rejects, variants 2 and 3: the pro retry, or the catch
Reject ==
  /\ variant \in {2, 3}
  /\ \E c \in calls : \E msg \in RejectMsgs :
       IF RetriesWithPro(variant, c.model)
         THEN /\ calls' = (calls \ {c}) \cup {Call(c.sid, "pro", c.parsed, msg)}
              /\ ncalls' = IF c.sid = session THEN ncalls + 1 ELSE ncalls
              /\ hist' = IF c.sid = session
                           THEN [hist EXCEPT !.primary = "rejected", !.primErr = msg,
                                             !.fallback = "pending"]
                           ELSE hist
              /\ UNCHANGED <<error, owner, isScanning>>
         ELSE /\ calls' = calls \ {c}
              /\ ncalls' = ncalls
              /\ hist' = HistCall(c, "rejected", IF c.model = FirstModel(variant) THEN "primErr" ELSE "fbErr", msg)
              /\ ScanFails(c.sid, msg)
  /\ UNCHANGED <<variant, env, phoneNumber, report, parsedData, scanProgress, manualKey,
                 showKeyInput, result, loading, pauses, intervals, session>>

\* the setTimeout callback: setReport(result); setIsScanning(false); setScanProgress(100)
PauseFires ==
  /\ \E p \in pauses :
       /\ pauses' = pauses \ {p}
       /\ report' = p.result
       /\ owner' = [owner EXCEPT !.report = p.sid]
       /\ isScanning' = FALSE
       /\ scanProgress' = PauseProgress(scanProgress)
  /\ UNCHANGED <<variant, env, phoneNumber, error, parsedData, manualKey, showKeyInput,
                 result, loading, calls, intervals, session, ncalls, hist>>

\* variant 1: the promise resolves: setResult({...}); finally setLoading(false)
ResolvePlain ==
  /\ variant = 1
  /\ \E c \in calls : \E text \in ResponseTexts :
       /\ calls' = calls \ {c}
       /\ result' = [kind |-> "result", id |-> 0, fields |-> c.parsed.fields \cup {text}]
       /\ owner' = [owner EXCEPT !.report = c.sid]
       /\ hist' = HistCall(c, "resolved", "text", text)
       /\ loading' = FALSE
  /\ UNCHANGED <<variant, env, phoneNumber, isScanning, error, report, parsedData,
                 scanProgress, manualKey, showKeyInput, pauses, intervals, session, ncalls>>

\* variant 1: the promise rejects: catch setError(err.message); finally setLoading(false)
RejectPlain ==
  /\ variant = 1
  /\ \E c \in calls : \E msg \in RejectMsgs :
       /\ calls' = calls \ {c}
       /\ error' = SearchError(variant, msg)
       /\ owner' = [owner EXCEPT !.error = c.sid]
       /\ hist' = HistCall(c, "rejected", "primErr", msg)
       /\ loading' = FALSE
  /\ UNCHANGED <<variant, env, phoneNumber, isScanning, report, parsedData, scanProgress,
                 manualKey, showKeyInput, result, pauses, intervals, session, ncalls>>

Next ==
  \/ SetPhoneNumber
  \/ SetManualKey
  \/ HandleSearch
  \/ HandleSearchPlain
  \/ Tick
  \/ Resolve
  \/ Reject
  \/ PauseFires
  \/ ResolvePlain
  \/ RejectPlain

Spec == Init /\ [][Next]_vars

\* variant 2 under every assignment of the environment sources, without the
\* progress interval
InitKey ==
  /\ variant = 2
  /\ env \in AllEnvs
  /\ phoneNumber = ""
  /\ isScanning = FALSE
  /\ error = NULL
  /\ report = NullObj
  /\ parsedData = NullObj
  /\ scanProgress = 0
  /\ manualKey = ""
  /\ showKeyInput = FALSE
  /\ result = NullObj
  /\ loading = FALSE
  /\ calls = {}
  /\ pauses = {}
  /\ intervals = {}
  /\ session = 0
  /\ ncalls = 0
  /\ hist = NoHist
  /\ owner = [error |-> 0, report |-> 0]

NextKey ==
  \/ SetPhoneNumber
  \/ SetManualKey
  \/ HandleSearch
  \/ Resolve
  \/ Reject
  \/ PauseFires

SpecKey == InitKey /\ [][NextKey]_vars

----------------------------------------------------------------------------
(* Properties *)

ScanVariant == variant \in {2, 3}

ErrorSet == error # NULL /\ error # ""

\* the object a well-formed response text denotes
Denoted(text) ==
  [kind |-> "object", id |-> IF text = TextR1 THEN 1 ELSE 2, fields |-> RequiredFields]

WellFormedTexts == {TextR1, TextR2}

\* C1: in the scan variants no outstanding model call and no pending pause
\* timer belongs to a superseded handleSearch run, and a report or error
\* that is set was written by the latest run: a response or pause timer of a
\* superseded session never changes the report or the error.
C1_NoStaleWrite ==
  ScanVariant =>
    /\ \A c \in calls : c.sid = session
    /\ \A p \in pauses : p.sid = session
    /\ ErrorSet => owner.error = session
    /\ report # NullObj => owner.report = session

\* a later session's report is shown after an earlier session ended
C1_Witness ==
  /\ ScanVariant
  /\ session >= 2
  /\ report # NullObj
  /\ owner.report = session

\* C2: variant 2, the flash call rejected and the pro call resolved with a
\* well-formed report R: two calls were made, no error is set, and once the
\* session has left Scanning the report is R.
C2_FallbackSuccess ==
  (variant = 2 /\ hist.primary = "rejected" /\ hist.fallback = "resolved"
     /\ hist.text \in WellFormedTexts) =>
    /\ ncalls = 2
    /\ error = NULL
    /\ IF isScanning
         THEN report = NullObj /\ pauses = {[sid |-> session, result |-> Denoted(hist.text)]}
         ELSE report = Denoted(hist.text)

C2_Witness ==
  /\ variant = 2
  /\ hist.primary = "rejected"
  /\ hist.fallback = "resolved"
  /\ hist.text = TextR2
  /\ ~isScanning
  /\ report = Denoted(TextR2)
  /\ ncalls = 2

\* C3: variant 2, the flash call and the pro call both rejected: isScanning
\* is false, the report is null and the error shown is the message of the
\* pro call's error (the generic message when that error has none).
C3_BothFail ==
  (variant = 2 /\ hist.primary = "rejected" /\ hist.fallback = "rejected") =>
    /\ ~isScanning
    /\ report = NullObj
    /\ error = (IF hist.fbErr # "" THEN hist.fbErr ELSE MsgReport)
    /\ ncalls = 2

C3_Witness ==
  /\ variant = 2
  /\ hist.primary = "rejected"
  /\ hist.fallback = "rejected"
  /\ hist.primErr = "quota exceeded"
  /\ hist.fbErr = "network down"
  /\ error = "network down"

\* every key source is empty or holds the placeholder
NoUsableKey ==
  /\ manualKey \in {"", PLACEHOLDER}
  /\ \A n \in EnvNames : env[n] \in {"", PLACEHOLDER}

ValidInput == ~ParsePhone(phoneNumber).threw /\ ParsePhone(phoneNumber).valid

\* C4: variant 2, a handleSearch run on a valid number while no key source
\* holds a usable key ends with isScanning false, the missing-key message,
\* showKeyInput true and no generateContent() call.
C4_MissingKey ==
  [][(variant = 2 /\ session' # session /\ ValidInput /\ NoUsableKey) =>
       /\ error' = MsgNoKey
       /\ ~isScanning'
       /\ showKeyInput'
       /\ report' = NullObj
       /\ ncalls' = 0
       /\ calls' = calls
       /\ pauses' = pauses]_vars

C4_Witness ==
  /\ variant = 2
  /\ session >= 1
  /\ NoUsableKey
  /\ env # NoEnv
  /\ error = MsgNoKey
  /\ showKeyInput
  /\ ~isScanning
  /\ ncalls = 0
  /\ calls = {}

ValidationMsgs == {"NOT_A_NUMBER", MsgInvalid2, MsgInvalid3}

\* C5: variants 2 and 3, a handleSearch run on an input the validator
\* rejects sets a validation message and nothing else: isScanning stays
\* false, no interval is started, no call is made, parsedData is null.
C5_RejectedInput ==
  [][(ScanVariant /\ session' # session /\ ~ValidInput) =>
       /\ error' \in ValidationMsgs
       /\ ~isScanning /\ ~isScanning'
       /\ intervals' = intervals
       /\ scanProgress' = scanProgress
       /\ calls' = calls
       /\ pauses' = pauses
       /\ ncalls' = 0
       /\ parsedData' = NullObj
       /\ report' = NullObj]_vars

C5_Witness ==
  /\ ScanVariant
  /\ session >= 1
  /\ phoneNumber = "+6212"
  /\ error \in {MsgInvalid2, MsgInvalid3}
  /\ owner.error = session
  /\ ~isScanning
  /\ parsedData = NullObj
  /\ ncalls = 0

\* C6: variants 2 and 3, a response whose text is empty, unparseable or
\* lacks a required field never becomes the stored report.
C6_MalformedNeverStored ==
  ScanVariant => (report = NullObj \/ RequiredFields \subseteq report.fields)

\* C7: scanProgress stays between 0 and 100.
C7_ProgressAtMost100 ==
  scanProgress >= 0 /\ scanProgress <= 100

\* a handleSearch run that reaches startScan
ScanStarts == session' # session /\ intervals' # intervals

\* C8: except in the step that starts a scan, scanProgress never decreases.
C8_ProgressMonotone ==
  [][~ScanStarts => scanProgress' >= scanProgress]_vars

\* C9: a live interval timer belongs to the latest session and that session
\* is still scanning.
C9_TimerClearedAtEnd ==
  \A i \in intervals : i = session /\ isScanning

\* C10: every handleSearch run leaves the report (result) null, and leaves
\* the error either cleared or written by this very run.
C10_SubmitClears ==
  [][session' # session =>
       /\ report' = NullObj
       /\ result' = NullObj
       /\ (error' = ErrorOnSubmit(variant) \/ owner'.error = session')]_vars

\* a second run has cleared the report the first run had shown
C10_Witness ==
  /\ session = 2
  /\ owner.report = 1
  /\ report = NullObj
  /\ result = NullObj
  /\ error = ErrorOnSubmit(variant)

\* a key value that is neither empty nor the placeholder
Usable(k) == k # "" /\ k # PLACEHOLDER

SomeUsableKey == Usable(manualKey) \/ \E n \in EnvNames : Usable(env[n])

\* C11: variant 2, a handleSearch run on a valid number while at least one
\* of the five key sources holds a usable key makes a generateContent()
\* call and does not end with the missing-key error.
C11_UsableKeyIsUsed ==
  [][(variant = 2 /\ session' # session /\ ValidInput /\ SomeUsableKey) =>
       /\ ncalls' = 1
       /\ calls' # calls
       /\ error' = NULL]_vars

\* the primary call of the latest session failed: it rejected, or it
\* resolved with text JSON.parse throws on
PrimaryFailed ==
  \/ hist.primary = "rejected"
  \/ hist.primary = "resolved" /\ JSONparse(ReportText(hist.text)).threw

\* C12: variant 2, whenever the primary call has failed, by rejection or by
\* an unparseable response, the pro model has been called once.
C12_RetryOnAnyPrimaryFailure ==
  (variant = 2 /\ PrimaryFailed) => (ncalls = 2 /\ hist.fallback # "none")

\* C13: a shown report (report set, isScanning false) comes with
\* scanProgress 100; the report is set only by a pending pause timer firing,
\* and the step that schedules the pause timer is the settling of a call,
\* which leaves report and isScanning as they were.
C13_SuccessAfterPause ==
  /\ [](ScanVariant /\ report # NullObj /\ ~isScanning => scanProgress = 100)
  /\ [][ScanVariant =>
          /\ (report' # report /\ report' # NullObj) =>
               /\ \E p \in pauses : p.result = report' /\ pauses' = pauses \ {p}
               /\ calls' = calls
               /\ isScanning /\ ~isScanning'
          /\ (pauses' # pauses /\ pauses \subseteq pauses') =>
               /\ calls' # calls /\ calls' \subseteq calls
               /\ report' = report
               /\ isScanning /\ isScanning']_vars

C13_Witness ==
  /\ ScanVariant
  /\ report = Denoted(TextR1)
  /\ ~isScanning
  /\ scanProgress = 100
  /\ intervals = {session}
  /\ pauses = {}

\* C14: once a session that started a scan has left Scanning, a report or
\* an error is set.
C14_EndsWithReportOrError ==
  (ScanVariant /\ hist.primary # "none" /\ ~isScanning) =>
    (report # NullObj \/ ErrorSet)

\* C15: variant 2, the pro model is called only after the flash call of
\* the same session rejected, and once: a session makes at most two calls,
\* two exactly when the flash call rejected; when the flash call resolved
\* one call was made and a shown report is its parsed output.
C15_FallbackOnlyAfterReject ==
  variant = 2 =>
    /\ ncalls <= 2
    /\ Cardinality(calls) <= 1
    /\ hist.fallback # "none" => hist.primary = "rejected"
    /\ ncalls = 2 <=> hist.primary = "rejected"
    /\ \A c \in calls : c.model = "pro" => (c.sid = session /\ hist.primary = "rejected")
    /\ hist.primary = "resolved" =>
         /\ ncalls = 1
         /\ hist.fallback = "none"
         /\ (hist.text \in WellFormedTexts /\ ~isScanning) => report = Denoted(hist.text)

C15_Witness ==
  /\ variant = 2
  /\ hist.primary = "resolved"
  /\ hist.text = TextR1
  /\ ncalls = 1
  /\ ~isScanning
  /\ report = Denoted(TextR1)

\* C16: report (result in variant 1) and error are never both set.
C16_ReportXorError ==
  /\ ~(report # NullObj /\ ErrorSet)
  /\ ~(result # NullObj /\ ErrorSet)

\* a report is shown by a session that follows a failed one
C16_Witness ==
  /\ session >= 2
  /\ owner.error >= 1
  /\ owner.error < session
  /\ owner.report = session
  /\ (report # NullObj \/ result # NullObj)
  /\ ~ErrorSet

\* C17: variants 2 and 3, handleSearch runs only while isScanning is false
\* and the input is non-empty; isScanning turns false only when the pause
\* timer fires or the failure handler runs; at most one call or pause timer
\* is outstanding, and only while isScanning.
C17_SingleInFlight ==
  /\ [](ScanVariant =>
          /\ Cardinality(calls) + Cardinality(pauses) <= 1
          /\ (calls # {} \/ pauses # {}) => isScanning)
  /\ [][ScanVariant =>
          /\ session' # session => (~isScanning /\ phoneNumber # "")
          /\ (isScanning /\ ~isScanning') =>
               \/ pauses' # pauses /\ pauses' \subseteq pauses
               \/ calls' # calls /\ calls' \subseteq calls /\ error' # NULL]_vars

C17_Witness ==
  /\ ScanVariant
  /\ session >= 2
  /\ isScanning
  /\ Cardinality(calls) = 1
  /\ pauses = {}

\* C18: at most one interval timer is live.
C18_OneInterval ==
  Cardinality(intervals) <= 1

\* C19: variants 2 and 3, while isScanning report and error are null; the
\* report becomes non-null, and outside handleSearch the error becomes
\* non-null, only in a step that turns isScanning false.
C19_NullWhileScanning ==
  /\ [](ScanVariant /\ isScanning => report = NullObj /\ error = NULL)
  /\ [][ScanVariant =>
          /\ (report = NullObj /\ report' # NullObj) => (isScanning /\ ~isScanning')
          /\ (session' = session /\ error = NULL /\ error' # NULL) =>
               (isScanning /\ ~isScanning')]_vars

C19_Witness ==
  /\ ScanVariant
  /\ session >= 2
  /\ isScanning
  /\ pauses # {}
  /\ owner.error = session - 1
  /\ report = NullObj
  /\ error = NULL

\* C20: variant 1, loading is true exactly while the call of a submission
\* is outstanding, and once a submission has completed exactly one of
\* result and error is set.
C20_PlainCompletes ==
  variant = 1 =>
    /\ loading <=> calls # {}
    /\ (session >= 1 /\ ~loading) => ((result # NullObj) # (error # ""))

====
